---- MODULE Spec2Model ----
(***************************************************************************)
(* A model of the Kaleidoscope-style front end in src/my-lang.cpp: the     *)
(* lexer (gettok), the recursive-descent / precedence-climbing parser, the *)
(* lowering of the AST into the module's function table, and the top-level *)
(* driver loop.  Characters and tokens are C ints, as in the source: a     *)
(* character is its ASCII code, EOF and the Token enumerators are          *)
(* negative.  One action of the model is one iteration of MainLoop.        *)
(***************************************************************************)
EXTENDS Integers, Sequences, FiniteSets, TLC

VARIABLES input,          \* the characters standard input will deliver
          pos,            \* how many of them getchar() has delivered
          LastChar,       \* gettok's static LastChar
          IdentifierStr,  \* filled in if tok_identifier
          NumVal,         \* filled in if tok_number
          CurTok,         \* the parser's one-token buffer
          errs,           \* the diagnostics LogError has written to stderr
          TheModule,      \* the functions of the LLVM module, in creation order
          NamedValues,    \* the names bound in the current function scope
          pc,             \* where main() is: "main", "loop" or "done"
          toks,           \* history: one entry per gettok() call that returned
          forms           \* history: one entry per handled top-level form

vars == <<input, pos, LastChar, IdentifierStr, NumVal, CurTok, errs,
          TheModule, NamedValues, pc, toks, forms>>

----------------------------------------------------------------------------
(* Characters and tokens *)

EOF == -1
tok_eof == -1
tok_def == -2
tok_extern == -3
tok_identifier == -4
tok_number == -5

Space == 32
NL == 10
CR == 13
Hash == 35
LParen == 40
RParen == 41
Star == 42
Plus == 43
Comma == 44
Minus == 45
Dot == 46
Slash == 47
Semi == 59
Less == 60
Greater == 62

isspace(c) == c \in {32, 9, 10, 11, 12, 13}
isalpha(c) == c \in (65..90) \cup (97..122)
isdigit(c) == c \in 48..57
isalnum(c) == isalpha(c) \/ isdigit(c)

Str_def == <<100, 101, 102>>
Str_extern == <<101, 120, 116, 101, 114, 110>>
Str_anon == <<95, 95, 97, 110, 111, 110, 95, 101, 120, 112, 114>>

----------------------------------------------------------------------------
(* strtod on a string of digits and dots.  A double is modelled exactly as *)
(* a decimal m / 10^e in lowest form (no trailing zero in the fraction),   *)
(* so that 1, 1. and 1.0 are the same value and 1.2.3 is 1.2.              *)

RECURSIVE DigitRun(_, _)
DigitRun(str, i) ==
    IF i <= Len(str) /\ isdigit(str[i]) THEN 1 + DigitRun(str, i + 1) ELSE 0

RECURSIVE DecValue(_)
DecValue(ds) ==
    IF ds = <<>> THEN 0
    ELSE 10 * DecValue(SubSeq(ds, 1, Len(ds) - 1)) + (ds[Len(ds)] - 48)

RECURSIVE MkDouble(_, _)
MkDouble(m, e) ==
    IF e > 0 /\ m % 10 = 0 THEN MkDouble(m \div 10, e - 1)
    ELSE [m |-> m, e |-> e]

strtod(str) ==
    LET Value(ni, nf) ==
            IF ni + nf = 0 THEN MkDouble(0, 0)
            ELSE MkDouble(DecValue(SubSeq(str, 1, ni) \o SubSeq(str, ni + 2, ni + 1 + nf)), nf)
        Fraction(ni) ==
            Value(ni, IF ni < Len(str) /\ str[ni + 1] = Dot THEN DigitRun(str, ni + 2) ELSE 0)
    IN Fraction(DigitRun(str, 1))

----------------------------------------------------------------------------
(* The lexer.  The operators work on a record s of the globals the lexer   *)
(* and the parser share: LastChar, IdentifierStr, NumVal, CurTok, errs,    *)
(* standard input (input, pos), the history toks and, within one handled   *)
(* form, the history exprs and the counter reads.  A local operator such   *)
(* as Scan(s) below names the rest of a function body after the call whose *)
(* result is s.                                                            *)

\* LastChar = getchar(); reads counts the calls made by one call of gettok.
getchar(s) ==
    IF s.pos < Len(s.input)
    THEN [s EXCEPT !.LastChar = s.input[s.pos + 1], !.pos = s.pos + 1, !.reads = @ + 1]
    ELSE [s EXCEPT !.LastChar = EOF, !.reads = @ + 1]

\* while (isspace(LastChar)) LastChar = getchar();
RECURSIVE SkipSpace(_)
SkipSpace(s) ==
    IF isspace(s.LastChar) THEN SkipSpace(getchar(s)) ELSE s

\* while (isalnum((LastChar = getchar()))) IdentifierStr += LastChar;
RECURSIVE ScanIdentifier(_)
\* Mutant: a name ends at the first character that is not a letter.
ScanIdentifier_alpha(s) ==
    LET Read(t) ==
            IF isalpha(t.LastChar)
            THEN ScanIdentifier([t EXCEPT !.IdentifierStr = Append(@, t.LastChar)])
            ELSE t
    IN Read(getchar(s))

ScanIdentifier(s) ==
    LET Read(t) ==
            IF isalnum(t.LastChar)
            THEN ScanIdentifier([t EXCEPT !.IdentifierStr = Append(@, t.LastChar)])
            ELSE t
    IN Read(getchar(s))

\* do { NumStr += LastChar; LastChar = getchar(); } while (isdigit(LastChar) || LastChar == '.');
RECURSIVE ScanNumber(_, _)
\* Mutant: a second '.' ends the number.
ScanNumber_onedot(s, NumStr) ==
    LET Read(t, n) ==
            IF isdigit(t.LastChar) \/ (t.LastChar = Dot /\ \A i \in 1..Len(n) : n[i] # Dot)
            THEN ScanNumber(t, n)
            ELSE [s |-> t, NumStr |-> n]
    IN Read(getchar(s), Append(NumStr, s.LastChar))

ScanNumber(s, NumStr) ==
    LET Read(t, n) ==
            IF isdigit(t.LastChar) \/ t.LastChar = Dot
            THEN ScanNumber(t, n)
            ELSE [s |-> t, NumStr |-> n]
    IN Read(getchar(s), Append(NumStr, s.LastChar))

\* do { LastChar = getchar(); } while (LastChar != EOF && LastChar != '\n' && LastChar != '\r');
RECURSIVE SkipComment(_)
\* Mutant: a carriage return does not end a comment.
SkipComment_nocr(s) ==
    LET Read(t) ==
            IF t.LastChar # EOF /\ t.LastChar # NL
            THEN SkipComment(t)
            ELSE t
    IN Read(getchar(s))

SkipComment(s) ==
    LET Read(t) ==
            IF t.LastChar # EOF /\ t.LastChar # NL /\ t.LastChar # CR
            THEN SkipComment(t)
            ELSE t
    IN Read(getchar(s))

\* The result is [tok, first, s]: the token, the index in the input of the
\* token's first character (0 for end-of-input), and the globals afterwards.
RECURSIVE gettok(_)
\* Mutant: after a comment the next token is not fetched; the character that
\* ended the comment is returned as a token.
gettok_fallthrough(s0) ==
    LET Name(s, t) ==
            [tok |-> IF t.IdentifierStr = Str_def THEN tok_def
                     ELSE IF t.IdentifierStr = Str_extern THEN tok_extern
                     ELSE tok_identifier,
             first |-> s.pos, s |-> t]
        Number(s, r) ==
            [tok |-> tok_number, first |-> s.pos,
             s |-> [r.s EXCEPT !.NumVal = strtod(r.NumStr)]]
        Comment(t) ==
            IF t.LastChar # EOF
            THEN [tok |-> t.LastChar, first |-> t.pos, s |-> getchar(t)]
            ELSE [tok |-> tok_eof, first |-> 0, s |-> t]
        Scan(s) ==
            IF isalpha(s.LastChar)
            THEN Name(s, ScanIdentifier([s EXCEPT !.IdentifierStr = <<s.LastChar>>]))
            ELSE IF isdigit(s.LastChar) \/ s.LastChar = Dot
            THEN Number(s, ScanNumber(s, <<>>))
            ELSE IF s.LastChar = Hash
            THEN Comment(SkipComment(s))
            ELSE IF s.LastChar = EOF
            THEN [tok |-> tok_eof, first |-> 0, s |-> s]
            ELSE [tok |-> s.LastChar, first |-> s.pos, s |-> getchar(s)]
    IN Scan(SkipSpace(s0))

\* Mutant: every call starts by reading a fresh character, dropping the one
\* held from the previous call.
gettok_dropheld(s0) ==
    LET Name(s, t) ==
            [tok |-> IF t.IdentifierStr = Str_def THEN tok_def
                     ELSE IF t.IdentifierStr = Str_extern THEN tok_extern
                     ELSE tok_identifier,
             first |-> s.pos, s |-> t]
        Number(s, r) ==
            [tok |-> tok_number, first |-> s.pos,
             s |-> [r.s EXCEPT !.NumVal = strtod(r.NumStr)]]
        Comment(t) ==
            IF t.LastChar # EOF THEN gettok(t)
            ELSE [tok |-> tok_eof, first |-> 0, s |-> t]
        Scan(s) ==
            IF isalpha(s.LastChar)
            THEN Name(s, ScanIdentifier([s EXCEPT !.IdentifierStr = <<s.LastChar>>]))
            ELSE IF isdigit(s.LastChar) \/ s.LastChar = Dot
            THEN Number(s, ScanNumber(s, <<>>))
            ELSE IF s.LastChar = Hash
            THEN Comment(SkipComment(s))
            ELSE IF s.LastChar = EOF
            THEN [tok |-> tok_eof, first |-> 0, s |-> s]
            ELSE [tok |-> s.LastChar, first |-> s.pos, s |-> getchar(s)]
    IN Scan(SkipSpace(getchar(s0)))

gettok(s0) ==
    LET Name(s, t) ==
            [tok |-> IF t.IdentifierStr = Str_def THEN tok_def
                     ELSE IF t.IdentifierStr = Str_extern THEN tok_extern
                     ELSE tok_identifier,
             first |-> s.pos, s |-> t]
        Number(s, r) ==
            [tok |-> tok_number, first |-> s.pos,
             s |-> [r.s EXCEPT !.NumVal = strtod(r.NumStr)]]
        Comment(t) ==
            IF t.LastChar # EOF THEN gettok(t)
            ELSE [tok |-> tok_eof, first |-> 0, s |-> t]
        Scan(s) ==
            IF isalpha(s.LastChar)
            THEN Name(s, ScanIdentifier([s EXCEPT !.IdentifierStr = <<s.LastChar>>]))
            ELSE IF isdigit(s.LastChar) \/ s.LastChar = Dot
            THEN Number(s, ScanNumber(s, <<>>))
            ELSE IF s.LastChar = Hash
            THEN Comment(SkipComment(s))
            ELSE IF s.LastChar = EOF
            THEN [tok |-> tok_eof, first |-> 0, s |-> s]
            ELSE [tok |-> s.LastChar, first |-> s.pos, s |-> getchar(s)]
    IN Scan(SkipSpace(s0))

\* One history entry per returned token: the token, its payload globals, the
\* index of its first character, the lexer's cursor and held character, and
\* the number of getchar() calls the call of gettok made.
TokEntry(r) ==
    [tok |-> r.tok, first |-> r.first, pos |-> r.s.pos, LastChar |-> r.s.LastChar,
     IdentifierStr |-> r.s.IdentifierStr, NumVal |-> r.s.NumVal, reads |-> r.s.reads]

getNextToken(s) ==
    LET Fetched(r) == [r.s EXCEPT !.CurTok = r.tok, !.toks = Append(@, TokEntry(r))]
    IN Fetched(gettok([s EXCEPT !.reads = 0]))

----------------------------------------------------------------------------
(* The AST.  Null is the null pointer a failed production returns.         *)

Null == [tag |-> "null"]
NumberExprAST(val) == [tag |-> "Number", Val |-> val]
VariableExprAST(name) == [tag |-> "Variable", Name |-> name]
BinaryExprAST(op, lhs, rhs) == [tag |-> "Binary", Op |-> op, LHS |-> lhs, RHS |-> rhs]
CallExprAST(callee, args) == [tag |-> "Call", Callee |-> callee, Args |-> args]
PrototypeAST(name, args) == [tag |-> "Prototype", Name |-> name, Args |-> args]
FunctionAST(proto, body) == [tag |-> "Function", Proto |-> proto, Body |-> body]

----------------------------------------------------------------------------
(* The parser.  A production takes the globals s and returns [node, s]:    *)
(* the node it built (Null on failure) and the globals afterwards.         *)

\* Mutant: '*' and '/' given the precedence of '+' and '-'.
GetTokPrecedence_flat(s) ==
    CASE s.CurTok \in {Greater, Less} -> 10
      [] s.CurTok \in {Plus, Minus, Star, Slash} -> 20
      [] OTHER -> -1

GetTokPrecedence(s) ==
    CASE s.CurTok \in {Greater, Less} -> 10
      [] s.CurTok \in {Plus, Minus} -> 20
      [] s.CurTok \in {Star, Slash} -> 40
      [] OTHER -> -1

LogError(s, str) == [node |-> Null, s |-> [s EXCEPT !.errs = Append(@, str)]]

\* Mutant: NumVal is read after the number has been consumed.
ParseNumberExpr_late(s) ==
    [node |-> NumberExprAST(getNextToken(s).NumVal), s |-> getNextToken(s)]

ParseNumberExpr(s) ==
    [node |-> NumberExprAST(s.NumVal), s |-> getNextToken(s)]

RECURSIVE ParseExpression(_), ParsePrimary(_), ParseBinOpRHS(_, _, _),
          ParseParenExpr(_), ParseIdentifierOrCallExpr(_), ParseArgs(_, _)

\* Mutant: the token found in place of ')' is eaten before the error is reported.
ParseParenExpr_eat(s) ==
    LET Close(V) ==
            IF V.node = Null THEN V
            ELSE IF V.s.CurTok # RParen THEN LogError(getNextToken(V.s), "expected ')'")
            ELSE [node |-> V.node, s |-> getNextToken(V.s)]
    IN Close(ParseExpression(getNextToken(s)))

\* Mutant: the error is reported but the return is missing, V is returned.
ParseParenExpr_noreturn(s) ==
    LET Close(V) ==
            IF V.node = Null THEN V
            ELSE IF V.s.CurTok # RParen
            THEN [node |-> V.node, s |-> getNextToken(LogError(V.s, "expected ')'").s)]
            ELSE [node |-> V.node, s |-> getNextToken(V.s)]
    IN Close(ParseExpression(getNextToken(s)))

ParseParenExpr(s) ==
    LET Close(V) ==
            IF V.node = Null THEN V
            ELSE IF V.s.CurTok # RParen THEN LogError(V.s, "expected ')'")
            ELSE [node |-> V.node, s |-> getNextToken(V.s)]
    IN Close(ParseExpression(getNextToken(s)))

\* Mutant: each argument is put in front of the ones parsed before it.
ParseArgs_prepend(s, Args) ==
    LET Pushed(Arg) ==
            IF Arg.node = Null THEN [ok |-> FALSE, Args |-> Args, s |-> Arg.s]
            ELSE IF Arg.s.CurTok = RParen
            THEN [ok |-> TRUE, Args |-> <<Arg.node>> \o Args, s |-> Arg.s]
            ELSE IF Arg.s.CurTok # Comma
            THEN [ok |-> FALSE, Args |-> <<Arg.node>> \o Args,
                  s |-> LogError(Arg.s, "Expected ')' or ',' in argument list").s]
            ELSE ParseArgs(getNextToken(Arg.s), <<Arg.node>> \o Args)
    IN Pushed(ParseExpression(s))

\* The while (true) loop of ParseIdentifierOrCallExpr, entered with the
\* arguments parsed so far; the result is [ok, Args, s].
ParseArgs(s, Args) ==
    LET Pushed(Arg) ==
            IF Arg.node = Null THEN [ok |-> FALSE, Args |-> Args, s |-> Arg.s]
            ELSE IF Arg.s.CurTok = RParen
            THEN [ok |-> TRUE, Args |-> Append(Args, Arg.node), s |-> Arg.s]
            ELSE IF Arg.s.CurTok # Comma
            THEN [ok |-> FALSE, Args |-> Append(Args, Arg.node),
                  s |-> LogError(Arg.s, "Expected ')' or ',' in argument list").s]
            ELSE ParseArgs(getNextToken(Arg.s), Append(Args, Arg.node))
    IN Pushed(ParseExpression(s))

ParseIdentifierOrCallExpr(s) ==
    LET Call(a) ==
            IF ~a.ok THEN [node |-> Null, s |-> a.s]
            ELSE [node |-> CallExprAST(s.IdentifierStr, a.Args), s |-> getNextToken(a.s)]
        Arguments(s2) ==
            Call(IF s2.CurTok # RParen THEN ParseArgs(s2, <<>>)
                 ELSE [ok |-> TRUE, Args |-> <<>>, s |-> s2])
        Identifier(s1) ==
            IF s1.CurTok # LParen
            THEN [node |-> VariableExprAST(s.IdentifierStr), s |-> s1]
            ELSE Arguments(getNextToken(s1))
    IN Identifier(getNextToken(s))

\* Mutant: the unknown token is eaten before the error is reported.
ParsePrimary_eat(s) ==
    CASE s.CurTok = tok_identifier -> ParseIdentifierOrCallExpr(s)
      [] s.CurTok = tok_number -> ParseNumberExpr(s)
      [] s.CurTok = LParen -> ParseParenExpr(s)
      [] OTHER -> LogError(getNextToken(s), "unknown token when expecting an expression")

ParsePrimary(s) ==
    CASE s.CurTok = tok_identifier -> ParseIdentifierOrCallExpr(s)
      [] s.CurTok = tok_number -> ParseNumberExpr(s)
      [] s.CurTok = LParen -> ParseParenExpr(s)
      [] OTHER -> LogError(s, "unknown token when expecting an expression")

\* Mutant: the pending operator also takes RHS when it binds equally tightly.
ParseBinOpRHS_rightassoc(ExprPrec, LHS, s) ==
    LET Merge(BinOp, RHS) ==
            IF RHS.node = Null THEN RHS
            ELSE ParseBinOpRHS(ExprPrec, BinaryExprAST(BinOp, LHS, RHS.node), RHS.s)
        Pending(TokPrec, BinOp, RHS) ==
            IF RHS.node = Null THEN RHS
            ELSE Merge(BinOp, IF TokPrec <= GetTokPrecedence(RHS.s)
                              THEN ParseBinOpRHS(TokPrec, RHS.node, RHS.s)
                              ELSE RHS)
        Operator(TokPrec) ==
            IF TokPrec < ExprPrec THEN [node |-> LHS, s |-> s]
            ELSE Pending(TokPrec, s.CurTok, ParsePrimary(getNextToken(s)))
    IN Operator(GetTokPrecedence(s))

ParseBinOpRHS(ExprPrec, LHS, s) ==
    LET Merge(BinOp, RHS) ==
            IF RHS.node = Null THEN RHS
            ELSE ParseBinOpRHS(ExprPrec, BinaryExprAST(BinOp, LHS, RHS.node), RHS.s)
        Pending(TokPrec, BinOp, RHS) ==
            IF RHS.node = Null THEN RHS
            ELSE Merge(BinOp, IF TokPrec < GetTokPrecedence(RHS.s)
                              THEN ParseBinOpRHS(TokPrec + 1, RHS.node, RHS.s)
                              ELSE RHS)
        Operator(TokPrec) ==
            IF TokPrec < ExprPrec THEN [node |-> LHS, s |-> s]
            ELSE Pending(TokPrec, s.CurTok, ParsePrimary(getNextToken(s)))
    IN Operator(GetTokPrecedence(s))

\* Mutant: the operators of precedence 10, '<' and '>', end the expression.
ParseExpression_prec20(s) ==
    LET Returned(E) ==
            IF E.node = Null THEN E
            ELSE [node |-> E.node,
                  s |-> [E.s EXCEPT !.exprs = Append(@, [from |-> Len(s.toks),
                                                         end |-> Len(E.s.toks),
                                                         tok |-> E.s.CurTok])]]
        Rest(LHS) ==
            IF LHS.node = Null THEN LHS
            ELSE Returned(ParseBinOpRHS(20, LHS.node, LHS.s))
    IN Rest(ParsePrimary(s))

\* A successful return is noted in the history exprs: the index of the
\* expression's first token (from), of the token that is current at the
\* return (end), and that token.
ParseExpression(s) ==
    LET Returned(E) ==
            IF E.node = Null THEN E
            ELSE [node |-> E.node,
                  s |-> [E.s EXCEPT !.exprs = Append(@, [from |-> Len(s.toks),
                                                         end |-> Len(E.s.toks),
                                                         tok |-> E.s.CurTok])]]
        Rest(LHS) ==
            IF LHS.node = Null THEN LHS
            ELSE Returned(ParseBinOpRHS(0, LHS.node, LHS.s))
    IN Rest(ParsePrimary(s))

\* while (getNextToken() == tok_identifier) ArgNames.push_back(IdentifierStr);
RECURSIVE ParseArgNames(_, _)
\* Mutant: a ',' after a parameter name is skipped.
ParseArgNames_skipcomma(s, ArgNames) ==
    LET Fetched(t) ==
            IF t.CurTok = tok_identifier
            THEN ParseArgNames(t, Append(ArgNames, t.IdentifierStr))
            ELSE IF t.CurTok = Comma /\ ArgNames # <<>>
            THEN ParseArgNames(t, ArgNames)
            ELSE [ArgNames |-> ArgNames, s |-> t]
    IN Fetched(getNextToken(s))

ParseArgNames(s, ArgNames) ==
    LET Fetched(t) ==
            IF t.CurTok = tok_identifier
            THEN ParseArgNames(t, Append(ArgNames, t.IdentifierStr))
            ELSE [ArgNames |-> ArgNames, s |-> t]
    IN Fetched(getNextToken(s))

\* Mutant: the token found in place of ')' is eaten before the error is reported.
ParsePrototype_eat(s) ==
    LET Close(a) ==
            IF a.s.CurTok # RParen
            THEN LogError(getNextToken(a.s), "Expected ')' in prototype")
            ELSE [node |-> PrototypeAST(s.IdentifierStr, a.ArgNames),
                  s |-> getNextToken(a.s)]
        Open(s1) ==
            IF s1.CurTok # LParen
            THEN LogError(s1, "Expected '(' in prototype")
            ELSE Close(ParseArgNames(s1, <<>>))
    IN IF s.CurTok # tok_identifier
       THEN LogError(s, "Expected function name in prototype")
       ELSE Open(getNextToken(s))

ParsePrototype(s) ==
    LET Close(a) ==
            IF a.s.CurTok # RParen
            THEN LogError(a.s, "Expected ')' in prototype")
            ELSE [node |-> PrototypeAST(s.IdentifierStr, a.ArgNames),
                  s |-> getNextToken(a.s)]
        Open(s1) ==
            IF s1.CurTok # LParen
            THEN LogError(s1, "Expected '(' in prototype")
            ELSE Close(ParseArgNames(s1, <<>>))
    IN IF s.CurTok # tok_identifier
       THEN LogError(s, "Expected function name in prototype")
       ELSE Open(getNextToken(s))

ParseDefinition(s) ==
    LET Body(Proto, E) ==
            IF E.node # Null
            THEN [node |-> FunctionAST(Proto.node, E.node), s |-> E.s]
            ELSE [node |-> Null, s |-> E.s]
        Prototype(Proto) ==
            IF Proto.node = Null THEN Proto
            ELSE Body(Proto, ParseExpression(Proto.s))
    IN Prototype(ParsePrototype(getNextToken(s)))

ParseTopLevelExpr(s) ==
    LET Wrap(E) ==
            IF E.node # Null
            THEN [node |-> FunctionAST(PrototypeAST(Str_anon, <<>>), E.node), s |-> E.s]
            ELSE [node |-> Null, s |-> E.s]
    IN Wrap(ParseExpression(s))

\* Mutant: an expression after the prototype is parsed as its body and dropped.
ParseExtern_body(s) ==
    LET Body(Proto) ==
            IF Proto.node = Null THEN Proto
            ELSE [node |-> Proto.node, s |-> ParseExpression(Proto.s).s]
    IN Body(ParsePrototype(getNextToken(s)))

ParseExtern(s) == ParsePrototype(getNextToken(s))

----------------------------------------------------------------------------
(* Lowering.  The module is the list of its functions, each with its name, *)
(* its parameter names and whether it has no body yet (empty), and the     *)
(* counter LLVM's symbol table uses to rename a function whose name is     *)
(* taken (f becomes f.1).  Renaming of duplicate parameter names inside    *)
(* one function is not modelled.  An expression lowers to [ok, errs].      *)

NoFunction == [Name |-> <<>>, Args |-> <<>>, empty |-> TRUE]

getFunction(M, name) ==
    IF \E i \in 1..Len(M.funcs) : M.funcs[i].Name = name
    THEN M.funcs[CHOOSE i \in 1..Len(M.funcs) : M.funcs[i].Name = name]
    ELSE NoFunction

eraseFromParent(M, name) ==
    [M EXCEPT !.funcs = SelectSeq(@, LAMBDA f : f.Name # name)]

LogErrorV(e, str) == [ok |-> FALSE, errs |-> Append(e, str)]

NumberExprAST_codegen(n, M, NV, e) == [ok |-> TRUE, errs |-> e]

VariableExprAST_codegen(n, M, NV, e) ==
    IF n.Name \in NV THEN [ok |-> TRUE, errs |-> e]
    ELSE LogErrorV(e, "Unknown variable name")

RECURSIVE ExprAST_codegen(_, _, _, _), CallArgs_codegen(_, _, _, _, _)

BinaryExprAST_codegen(n, M, NV, e) ==
    LET Emit(L, R) ==
            IF ~L.ok \/ ~R.ok THEN [ok |-> FALSE, errs |-> R.errs]
            ELSE IF n.Op \in {Plus, Minus, Star, Less} THEN [ok |-> TRUE, errs |-> R.errs]
            ELSE LogErrorV(R.errs, "invalid binary operator")
        Right(L) == Emit(L, ExprAST_codegen(n.RHS, M, NV, L.errs))
    IN Right(ExprAST_codegen(n.LHS, M, NV, e))

\* for (i = 0; i != e; ++i) { ArgsV.push_back(Args[i]->codegen()); ... }
CallArgs_codegen(Args, i, M, NV, e) ==
    LET Pushed(a) == IF ~a.ok THEN a ELSE CallArgs_codegen(Args, i + 1, M, NV, a.errs)
    IN IF i > Len(Args) THEN [ok |-> TRUE, errs |-> e]
       ELSE Pushed(ExprAST_codegen(Args[i], M, NV, e))

CallExprAST_codegen(n, M, NV, e) ==
    LET Emit(CalleeF) ==
            IF CalleeF = NoFunction THEN LogErrorV(e, "Unknown function referenced")
            ELSE IF Len(CalleeF.Args) # Len(n.Args)
            THEN LogErrorV(e, "Incorrect # arguments passed")
            ELSE CallArgs_codegen(n.Args, 1, M, NV, e)
    IN Emit(getFunction(M, n.Callee))

ExprAST_codegen(n, M, NV, e) ==
    CASE n.tag = "Number" -> NumberExprAST_codegen(n, M, NV, e)
      [] n.tag = "Variable" -> VariableExprAST_codegen(n, M, NV, e)
      [] n.tag = "Binary" -> BinaryExprAST_codegen(n, M, NV, e)
      [] n.tag = "Call" -> CallExprAST_codegen(n, M, NV, e)

\* Function::Create(FT, ExternalLinkage, Name, TheModule.get()): the module
\* with the function added, renamed (f.1) if the name is taken.
PrototypeAST_codegen(p, M) ==
    IF getFunction(M, p.Name) = NoFunction
    THEN [M EXCEPT !.funcs = Append(@, [Name |-> p.Name, Args |-> p.Args,
                                        empty |-> TRUE])]
    ELSE [funcs |-> Append(M.funcs, [Name |-> p.Name \o <<Dot, 48 + M.LastUnique + 1>>,
                                     Args |-> p.Args, empty |-> TRUE]),
          LastUnique |-> M.LastUnique + 1]

\* BasicBlock::Create(*TheContext, "entry", TheFunction)
SetBody(M, name) ==
    [M EXCEPT !.funcs = [i \in 1..Len(@) |->
                            IF @[i].Name = name THEN [@[i] EXCEPT !.empty = FALSE]
                            ELSE @[i]]]

\* The result is [F, M, NV, errs]: the function's name (<<>> for a null
\* result), the module, NamedValues and the diagnostics afterwards.
FunctionAST_codegen(fn, M, NV, e) ==
    LET Finish(TheFunction, M2, NV2, RetVal) ==
            IF RetVal.ok
            THEN [F |-> TheFunction.Name, M |-> M2, NV |-> NV2, errs |-> RetVal.errs]
            ELSE [F |-> <<>>, M |-> eraseFromParent(M2, TheFunction.Name),
                  NV |-> NV2, errs |-> RetVal.errs]
        Body(TheFunction, M2, NV2) ==
            Finish(TheFunction, M2, NV2, ExprAST_codegen(fn.Body, M2, NV2, e))
        Entry(TheFunction, M1) ==
            IF ~TheFunction.empty
            THEN [F |-> <<>>, M |-> M1, NV |-> NV,
                  errs |-> Append(e, "Function cannot be redefined.")]
            ELSE Body(TheFunction, SetBody(M1, TheFunction.Name),
                      {TheFunction.Args[i] : i \in 1..Len(TheFunction.Args)})
        Lookup(M1) == Entry(getFunction(M1, fn.Proto.Name), M1)
    IN Lookup(IF getFunction(M, fn.Proto.Name) = NoFunction
              THEN PrototypeAST_codegen(fn.Proto, M)
              ELSE M)

----------------------------------------------------------------------------
(* The driver.                                                             *)

Globals ==
    [input |-> input, LastChar |-> LastChar, pos |-> pos,
     IdentifierStr |-> IdentifierStr, NumVal |-> NumVal, CurTok |-> CurTok,
     errs |-> errs, toks |-> toks, exprs |-> <<>>, reads |-> 0]

SetGlobals(s) ==
    /\ LastChar' = s.LastChar
    /\ pos' = s.pos
    /\ IdentifierStr' = s.IdentifierStr
    /\ NumVal' = s.NumVal
    /\ CurTok' = s.CurTok
    /\ errs' = s.errs
    /\ toks' = s.toks

\* One history entry per handled form: what was parsed, how many tokens had
\* been fetched when the form was dispatched (start), when its production
\* returned (end) and when the handler returned (resume), the token that
\* was current when the production returned, the diagnostics the production
\* reported, whether lowering gave a function, and the expressions parsed
\* inside the form, in the order of their return.
FormEntry(kind, r, s, F) ==
    [kind |-> kind, ast |-> r.node, start |-> Len(toks), end |-> Len(r.s.toks),
     resume |-> Len(s.toks), endTok |-> r.s.CurTok,
     perrs |-> SubSeq(r.s.errs, Len(errs) + 1, Len(r.s.errs)), lowered |-> F,
     exprs |-> r.s.exprs]

\* The else branch of a handler: getNextToken() for error recovery.
Skipped(kind, r, s) ==
    /\ SetGlobals(s)
    /\ forms' = Append(forms, FormEntry(kind, r, s, FALSE))

\* main(), up to the call of MainLoop
Main ==
    /\ pc = "main"
    /\ SetGlobals(getNextToken(Globals))
    /\ TheModule' = [funcs |-> <<>>, LastUnique |-> 0]
    /\ pc' = "loop"
    /\ UNCHANGED <<input, NamedValues, forms>>

\* Mutant: the loop also returns at a top-level ';'.
MainLoopEof_semi ==
    /\ pc = "loop"
    /\ CurTok \in {tok_eof, Semi}
    /\ pc' = "done"
    /\ UNCHANGED <<input, pos, LastChar, IdentifierStr, NumVal, CurTok, errs,
                   TheModule, NamedValues, toks, forms>>

\* case tok_eof: return;  and the rest of main()
MainLoopEof ==
    /\ pc = "loop"
    /\ CurTok = tok_eof
    /\ pc' = "done"
    /\ UNCHANGED <<input, pos, LastChar, IdentifierStr, NumVal, CurTok, errs,
                   TheModule, NamedValues, toks, forms>>

\* case ';': getNextToken();
MainLoopSemicolon ==
    /\ pc = "loop"
    /\ CurTok = Semi
    /\ SetGlobals(getNextToken(Globals))
    /\ UNCHANGED <<input, TheModule, NamedValues, pc, forms>>

HandleDefinition ==
    LET Lowered(FnAST, FnIR) ==
            /\ SetGlobals([FnAST.s EXCEPT !.errs = FnIR.errs])
            /\ TheModule' = FnIR.M
            /\ NamedValues' = FnIR.NV
            /\ forms' = Append(forms, FormEntry("def", FnAST, FnAST.s, FnIR.F # <<>>))
        Parsed(FnAST) ==
            IF FnAST.node # Null
            THEN Lowered(FnAST, FunctionAST_codegen(FnAST.node, TheModule, NamedValues,
                                                    FnAST.s.errs))
            ELSE /\ Skipped("def", FnAST, getNextToken(FnAST.s))
                 /\ UNCHANGED <<TheModule, NamedValues>>
    IN /\ pc = "loop"
       /\ CurTok = tok_def
       /\ Parsed(ParseDefinition(Globals))
       /\ UNCHANGED <<input, pc>>

\* Mutant: no token is skipped when the prototype fails to parse.
HandleExtern_noskip ==
    LET Parsed(ProtoAST) ==
            IF ProtoAST.node # Null
            THEN /\ SetGlobals(ProtoAST.s)
                 /\ TheModule' = PrototypeAST_codegen(ProtoAST.node, TheModule)
                 /\ forms' = Append(forms, FormEntry("extern", ProtoAST, ProtoAST.s, TRUE))
            ELSE /\ Skipped("extern", ProtoAST, ProtoAST.s)
                 /\ UNCHANGED TheModule
    IN /\ pc = "loop"
       /\ CurTok = tok_extern
       /\ Parsed(ParseExtern(Globals))
       /\ UNCHANGED <<input, NamedValues, pc>>

HandleExtern ==
    LET Parsed(ProtoAST) ==
            IF ProtoAST.node # Null
            THEN /\ SetGlobals(ProtoAST.s)
                 /\ TheModule' = PrototypeAST_codegen(ProtoAST.node, TheModule)
                 /\ forms' = Append(forms, FormEntry("extern", ProtoAST, ProtoAST.s, TRUE))
            ELSE /\ Skipped("extern", ProtoAST, getNextToken(ProtoAST.s))
                 /\ UNCHANGED TheModule
    IN /\ pc = "loop"
       /\ CurTok = tok_extern
       /\ Parsed(ParseExtern(Globals))
       /\ UNCHANGED <<input, NamedValues, pc>>

\* Mutant: the anonymous function stays in the module after lowering.
HandleTopLevelExpression_keep ==
    LET Lowered(FnAST, FnIR) ==
            /\ SetGlobals([FnAST.s EXCEPT !.errs = FnIR.errs])
            /\ TheModule' = FnIR.M
            /\ NamedValues' = FnIR.NV
            /\ forms' = Append(forms, FormEntry("expr", FnAST, FnAST.s, FnIR.F # <<>>))
        Parsed(FnAST) ==
            IF FnAST.node # Null
            THEN Lowered(FnAST, FunctionAST_codegen(FnAST.node, TheModule, NamedValues,
                                                    FnAST.s.errs))
            ELSE /\ Skipped("expr", FnAST, getNextToken(FnAST.s))
                 /\ UNCHANGED <<TheModule, NamedValues>>
    IN /\ pc = "loop"
       /\ CurTok \notin {tok_eof, Semi, tok_def, tok_extern}
       /\ Parsed(ParseTopLevelExpr(Globals))
       /\ UNCHANGED <<input, pc>>

\* Mutant: no token is skipped when the expression fails to parse.
HandleTopLevelExpression_noskip ==
    LET Lowered(FnAST, FnIR) ==
            /\ SetGlobals([FnAST.s EXCEPT !.errs = FnIR.errs])
            /\ TheModule' = IF FnIR.F # <<>> THEN eraseFromParent(FnIR.M, FnIR.F)
                            ELSE FnIR.M
            /\ NamedValues' = FnIR.NV
            /\ forms' = Append(forms, FormEntry("expr", FnAST, FnAST.s, FnIR.F # <<>>))
        Parsed(FnAST) ==
            IF FnAST.node # Null
            THEN Lowered(FnAST, FunctionAST_codegen(FnAST.node, TheModule, NamedValues,
                                                    FnAST.s.errs))
            ELSE /\ Skipped("expr", FnAST, FnAST.s)
                 /\ UNCHANGED <<TheModule, NamedValues>>
    IN /\ pc = "loop"
       /\ CurTok \notin {tok_eof, Semi, tok_def, tok_extern}
       /\ Parsed(ParseTopLevelExpr(Globals))
       /\ UNCHANGED <<input, pc>>

HandleTopLevelExpression ==
    LET Lowered(FnAST, FnIR) ==
            /\ SetGlobals([FnAST.s EXCEPT !.errs = FnIR.errs])
            /\ TheModule' = IF FnIR.F # <<>> THEN eraseFromParent(FnIR.M, FnIR.F)
                            ELSE FnIR.M
            /\ NamedValues' = FnIR.NV
            /\ forms' = Append(forms, FormEntry("expr", FnAST, FnAST.s, FnIR.F # <<>>))
        Parsed(FnAST) ==
            IF FnAST.node # Null
            THEN Lowered(FnAST, FunctionAST_codegen(FnAST.node, TheModule, NamedValues,
                                                    FnAST.s.errs))
            ELSE /\ Skipped("expr", FnAST, getNextToken(FnAST.s))
                 /\ UNCHANGED <<TheModule, NamedValues>>
    IN /\ pc = "loop"
       /\ CurTok \notin {tok_eof, Semi, tok_def, tok_extern}
       /\ Parsed(ParseTopLevelExpr(Globals))
       /\ UNCHANGED <<input, pc>>

----------------------------------------------------------------------------
(* The inputs.  Three families of character strings are fed to the         *)
(* program: chains of primaries joined by binary operators, sequences of   *)
(* well-formed and malformed top-level forms, and strings of lexical       *)
(* fragments (name and number pieces, comments, line ends, blanks).        *)

MaxOps == 3
MaxForms == 2
MaxChunks == 4

BinOps == {Less, Greater, Plus, Minus, Star, Slash}

RECURSIVE Flatten(_)
Flatten(ss) == IF ss = <<>> THEN <<>> ELSE Head(ss) \o Flatten(Tail(ss))

SeqsUpTo(S, n) == UNION {[1..k -> S] : k \in 0..n}

\* The i-th primary of a chain (i = 0, 1, ...) in one of three styles: the
\* number i+1, the variable named by the i-th letter, or alternately the
\* parenthesized number (i+1) and the call a(i+1).
PrimaryText(style, i) ==
    CASE style = 1 -> <<49 + i>>
      [] style = 2 -> <<97 + i>>
      [] style = 3 -> IF i % 2 = 0 THEN <<LParen, 49 + i, RParen>>
                      ELSE <<97, LParen, 49 + i, RParen>>

RECURSIVE ChainText(_, _)
ChainText(style, ops) ==
    IF ops = <<>> THEN PrimaryText(style, 0)
    ELSE ChainText(style, SubSeq(ops, 1, Len(ops) - 1))
         \o <<ops[Len(ops)]>> \o PrimaryText(style, Len(ops))

Chains == (1..3) \X SeqsUpTo(BinOps, MaxOps)
ExprInputs == {ChainText(c[1], c[2]) : c \in Chains}

\*    1  def f(x) x
\*    2  def g(x y) x*y
\*    3  extern f(x)
\*    4  1+2
\*    5  f(1)
\*    6  x;
GoodForms ==
    <<<<100, 101, 102, 32, 102, 40, 120, 41, 32, 120>>,
      <<100, 101, 102, 32, 103, 40, 120, 32, 121, 41, 32, 120, 42, 121>>,
      <<101, 120, 116, 101, 114, 110, 32, 102, 40, 120, 41>>,
      <<49, 43, 50>>,
      <<102, 40, 49, 41>>,
      <<120, 59>>>>

\*    1  (1+2
\*    2  def (
\*    3  def f(x
\*    4  extern 1
\*    5  f(1 2)
\*    6  1+
\*    7  )
\*    8  def f(x) )
\*    9  f(1,
\*   10  1+2*
\*   11  ()
BadForms ==
    <<<<40, 49, 43, 50>>,
      <<100, 101, 102, 32, 40>>,
      <<100, 101, 102, 32, 102, 40, 120>>,
      <<101, 120, 116, 101, 114, 110, 32, 49>>,
      <<102, 40, 49, 32, 50, 41>>,
      <<49, 43>>,
      <<41>>,
      <<100, 101, 102, 32, 102, 40, 120, 41, 32, 41>>,
      <<102, 40, 49, 44>>,
      <<49, 43, 50, 42>>,
      <<40, 41>>>>

FormTexts == {GoodForms[i] : i \in 1..Len(GoodForms)} \cup {BadForms[i] : i \in 1..Len(BadForms)}
Separators == {<<Space>>, <<Semi>>}

\* form (separator form)*
FormInputs ==
    {Flatten([i \in 1..(2 * Len(fs) - 1) |->
                 IF i % 2 = 1 THEN fs[(i + 1) \div 2] ELSE ss[i \div 2]]) :
        <<fs, ss>> \in {p \in SeqsUpTo(FormTexts, MaxForms) \X SeqsUpTo(Separators, MaxForms - 1) :
                           Len(p[1]) = Len(p[2]) + 1}}

\*    1  def
\*    2  a
\*    3  1
\*    4  .
\*    5  #
\*    6  \n
\*    7  \r
\*    8   
\*    9  +
Chunks ==
    <<<<100, 101, 102>>,
      <<97>>,
      <<49>>,
      <<46>>,
      <<35>>,
      <<10>>,
      <<13>>,
      <<32>>,
      <<43>>>>

LexInputs == {Flatten(cs) : cs \in SeqsUpTo({Chunks[i] : i \in 1..Len(Chunks)}, MaxChunks)}

\* Calls of f with up to MaxArgs arguments, each one of
\*    1  1
\*    2  x
\*    3  2+3
\*    4  g(4,5)
\* separated by "," (style 1) or by " , " (style 2).
MaxArgs == 2

ArgTexts ==
    <<<<49>>,
      <<120>>,
      <<50, 43, 51>>,
      <<103, 40, 52, 44, 53, 41>>>>

RECURSIVE JoinArgs(_, _)
JoinArgs(style, as) ==
    IF as = <<>> THEN <<>>
    ELSE IF Len(as) = 1 THEN ArgTexts[as[1]]
    ELSE JoinArgs(style, SubSeq(as, 1, Len(as) - 1))
         \o (IF style = 1 THEN <<Comma>> ELSE <<Space, Comma, Space>>)
         \o ArgTexts[as[Len(as)]]

CallText(style, as) == <<102, LParen>> \o JoinArgs(style, as) \o <<RParen>>

CallInputs == {CallText(c[1], c[2]) : c \in (1..2) \X SeqsUpTo(1..Len(ArgTexts), MaxArgs)}

\* Prototypes after 'def' (kw 1) or 'extern' (kw 2) with up to MaxParams
\* parameters x and y, separated by " " (sep 1) or "," (sep 2), followed by
\* one of the tails
\*    1
\*    2   x
\*    3   x+y
\*    4   1
\*    5   x 1
\* in four shapes: whole (1), without the name (2), with a blank in place
\* of '(' (3), without ')' (4).
MaxParams == 2

KwTexts == <<Str_def, Str_extern>>
ParamTexts == <<<<120>>, <<121>>>>
Tails ==
    <<<<>>,
      <<32, 120>>,
      <<32, 120, 43, 121>>,
      <<32, 49>>,
      <<32, 120, 32, 49>>>>

RECURSIVE JoinParams(_, _)
JoinParams(sep, ps) ==
    IF ps = <<>> THEN <<>>
    ELSE IF Len(ps) = 1 THEN ParamTexts[ps[1]]
    ELSE JoinParams(sep, SubSeq(ps, 1, Len(ps) - 1))
         \o (IF sep = 1 THEN <<Space>> ELSE <<Comma>>)
         \o ParamTexts[ps[Len(ps)]]

ProtoText(kw, shape, sep, ps, tail) ==
    KwTexts[kw] \o <<Space>>
    \o (IF shape # 2 THEN <<102>> ELSE <<>>)
    \o (IF shape # 3 THEN <<LParen>> ELSE <<Space>>)
    \o JoinParams(sep, ps)
    \o (IF shape # 4 THEN <<RParen>> ELSE <<>>)
    \o Tails[tail]

ParamLists == SeqsUpTo(1..Len(ParamTexts), MaxParams)

ProtoInputs ==
    {ProtoText(c[1], c[2], c[3], c[4], c[5]) :
        c \in (1..2) \X (1..4) \X (1..2) \X ParamLists \X (1..Len(Tails))}

\* The keywords def and extern after nothing, "1" or "x" and before
\* nothing, "1", "s", "ine", "(" or " x": def, define, def1, externs, 1def,
\* xextern, ...
KeywordPrefixes == {<<>>, <<49>>, <<120>>}
KeywordSuffixes == {<<>>, <<49>>, <<115>>, <<105, 110, 101>>, <<LParen>>, <<Space, 120>>}
KeywordInputs ==
    {c[1] \o KwTexts[c[2]] \o c[3] : c \in KeywordPrefixes \X (1..2) \X KeywordSuffixes}

\* A token that starts no primary, in primary position: after nothing,
\* "1+", "(", "f(", "f(1," or "def f(x) ", one of def, extern, nothing
\* (end of input), ")", ",", ";", "+", "*", "<", "=".  The number with a
\* context is the number of tokens in it, the number with a token its code.
PrimaryContexts ==
    <<<<<<>>, 0>>,
      <<<<49, 43>>, 2>>,
      <<<<40>>, 1>>,
      <<<<102, 40>>, 2>>,
      <<<<102, 40, 49, 44>>, 4>>,
      <<<<100, 101, 102, 32, 102, 40, 120, 41, 32>>, 5>>>>

NonPrimaryTokens ==
    <<<<Str_def, tok_def>>,
      <<Str_extern, tok_extern>>,
      <<<<>>, tok_eof>>,
      <<<<RParen>>, RParen>>,
      <<<<Comma>>, Comma>>,
      <<<<Semi>>, Semi>>,
      <<<<Plus>>, Plus>>,
      <<<<Star>>, Star>>,
      <<<<Less>>, Less>>,
      <<<<61>>, 61>>>>

\* At the top level the driver itself takes def, extern, ';' and the end of
\* input; right after "f(" a ')' closes the empty argument list.
InPrimaryPosition(c, k) ==
    /\ c = 1 => NonPrimaryTokens[k][2] \notin {tok_def, tok_extern, tok_eof, Semi}
    /\ c = 4 => NonPrimaryTokens[k][2] # RParen

PrimaryCases ==
    {p \in (1..Len(PrimaryContexts)) \X (1..Len(NonPrimaryTokens)) :
        InPrimaryPosition(p[1], p[2])}

PrimaryCaseText(p) == PrimaryContexts[p[1]][1] \o NonPrimaryTokens[p[2]][1]

PrimaryInputs == {PrimaryCaseText(p) : p \in PrimaryCases}

\* The runs 1.2.3, .., ., 12.50 and .5. before nothing, "+4", "a", " 1"
\* or "(".
NumberRuns ==
    {<<49, 46, 50, 46, 51>>, <<46, 46>>, <<46>>, <<49, 50, 46, 53, 48>>, <<46, 53, 46>>}
NumberFollowers == {<<>>, <<43, 52>>, <<97>>, <<32, 49>>, <<LParen>>}
NumberInputs == {c[1] \o c[2] : c \in NumberRuns \X NumberFollowers}

\* A definition of f after nothing, "extern f(x)", "def f(x) x" or
\* "extern g(x)", with the body x, y, x/x or h(x), and before nothing or
\* the call f(1).
DefEarlier ==
    {<<>>,
     <<101, 120, 116, 101, 114, 110, 32, 102, 40, 120, 41, 32>>,
     <<100, 101, 102, 32, 102, 40, 120, 41, 32, 120, 32>>,
     <<101, 120, 116, 101, 114, 110, 32, 103, 40, 120, 41, 32>>}
DefBodies == {<<120>>, <<121>>, <<120, 47, 120>>, <<104, 40, 120, 41>>}
DefLater == {<<>>, <<32, 102, 40, 49, 41>>}
DefInputs ==
    {c[1] \o <<100, 101, 102, 32, 102, 40, 120, 41, 32>> \o c[2] \o c[3] :
        c \in DefEarlier \X DefBodies \X DefLater}

\* The text __anon_expr after nothing, "def ", "extern ", "1+2 " or "f(" and
\* before nothing, "()" or "() 1".
AnonContexts ==
    {<<>>,
     <<100, 101, 102, 32>>,
     <<101, 120, 116, 101, 114, 110, 32>>,
     <<49, 43, 50, 32>>,
     <<102, 40>>}
AnonTails == {<<>>, <<LParen, RParen>>, <<LParen, RParen, Space, 49>>}
AnonInputs == {c[1] \o Str_anon \o c[2] : c \in AnonContexts \X AnonTails}

Inputs ==
    ExprInputs \cup FormInputs \cup LexInputs \cup CallInputs \cup ProtoInputs
    \cup KeywordInputs \cup PrimaryInputs \cup NumberInputs \cup DefInputs
    \cup AnonInputs

Init ==
    /\ input \in Inputs
    /\ pos = 0
    /\ LastChar = Space
    /\ IdentifierStr = <<>>
    /\ NumVal = MkDouble(0, 0)
    /\ CurTok = 0
    /\ errs = <<>>
    /\ TheModule = [funcs |-> <<>>, LastUnique |-> 0]
    /\ NamedValues = {}
    /\ pc = "main"
    /\ toks = <<>>
    /\ forms = <<>>

Next ==
    \/ Main
    \/ MainLoopEof
    \/ MainLoopSemicolon
    \/ HandleDefinition
    \/ HandleExtern
    \/ HandleTopLevelExpression

Spec == Init /\ [][Next]_vars

----------------------------------------------------------------------------
(* Properties of the expression chains.                                    *)

\* The precedence table as the language definition states it.
PrecTable(op) ==
    CASE op \in {Less, Greater} -> 10
      [] op \in {Plus, Minus} -> 20
      [] op \in {Star, Slash} -> 40

\* The node the i-th primary of a chain stands for.
Leaf(style, i) ==
    CASE style = 1 -> NumberExprAST([m |-> i + 1, e |-> 0])
      [] style = 2 -> VariableExprAST(<<97 + i>>)
      [] style = 3 -> IF i % 2 = 0 THEN NumberExprAST([m |-> i + 1, e |-> 0])
                      ELSE CallExprAST(<<97>>, <<NumberExprAST([m |-> i + 1, e |-> 0])>>)

\* The chain the input is, if it is one: its style and its operators.
InputStyle ==
    IF input = <<>> THEN 0
    ELSE IF isdigit(input[1]) THEN 1
    ELSE IF isalpha(input[1]) THEN 2
    ELSE IF input[1] = LParen THEN 3
    ELSE 0
InputOps == SelectSeq(input, LAMBDA c : c \in BinOps)
IsChain ==
    /\ InputStyle # 0
    /\ Len(InputOps) <= MaxOps
    /\ input = ChainText(InputStyle, InputOps)

\* The expression of the first form handled, once it has been handled.
ChainParsed == IsChain /\ forms # <<>>
ChainBody == forms[1].ast.Body

Climbs(ops, i) == i < Len(ops) /\ PrecTable(ops[i]) < PrecTable(ops[i + 1])

RECURSIVE HasBinary(_, _, _)
HasBinary(n, op, lhs) ==
    CASE n.tag = "Binary" -> \/ n.Op = op /\ n.LHS = lhs
                             \/ HasBinary(n.LHS, op, lhs)
                             \/ HasBinary(n.RHS, op, lhs)
      [] n.tag = "Call" -> \E i \in 1..Len(n.Args) : HasBinary(n.Args[i], op, lhs)
      [] OTHER -> FALSE

\* C1: in a chain of primaries joined by binary operators, whenever an
\* operator is followed, after its right primary, by an operator of strictly
\* greater precedence, that primary is the left operand of the
\* higher-precedence operator; a op1 b op2 c with op2 above op1 is
\* BinaryOp(op1, a, BinaryOp(op2, b, c)).
C1_HigherPrecedenceBindsRightPrimary ==
    ChainParsed =>
        /\ forms[1].ast # Null
        /\ \A i \in 1..Len(InputOps) :
              Climbs(InputOps, i) =>
                  HasBinary(ChainBody, InputOps[i + 1], Leaf(InputStyle, i))
        /\ (Len(InputOps) = 2 /\ Climbs(InputOps, 1)) =>
              ChainBody = BinaryExprAST(InputOps[1], Leaf(InputStyle, 0),
                              BinaryExprAST(InputOps[2], Leaf(InputStyle, 1),
                                            Leaf(InputStyle, 2)))

C1_Witness ==
    /\ ChainParsed
    /\ pc = "done"
    /\ Len(InputOps) = 2
    /\ InputOps[1] = Plus /\ InputOps[2] = Star
    /\ ChainBody.tag = "Binary" /\ ChainBody.RHS.tag = "Binary"

RECURSIVE LeftFold(_, _)
LeftFold(style, ops) ==
    IF ops = <<>> THEN Leaf(style, 0)
    ELSE BinaryExprAST(ops[Len(ops)], LeftFold(style, SubSeq(ops, 1, Len(ops) - 1)),
                       Leaf(style, Len(ops)))

SamePrecedence(ops) ==
    \A i, j \in 1..Len(ops) : PrecTable(ops[i]) = PrecTable(ops[j])

\* C2: a chain whose operators all have the same precedence is folded to the
\* left, whatever its length, its precedence level and its mix of operators:
\* a op1 b op2 c is BinaryOp(op2, BinaryOp(op1, a, b), c).
C2_EqualPrecedenceFoldsLeft ==
    (ChainParsed /\ SamePrecedence(InputOps)) =>
        /\ forms[1].ast # Null
        /\ ChainBody = LeftFold(InputStyle, InputOps)

C2_Witness ==
    /\ ChainParsed
    /\ pc = "done"
    /\ Len(InputOps) >= 2
    /\ SamePrecedence(InputOps)
    /\ InputOps[1] = Minus /\ InputOps[2] = Plus
    /\ ChainBody.tag = "Binary" /\ ChainBody.LHS.tag = "Binary"

----------------------------------------------------------------------------
(* Properties of error recovery.                                           *)

\* What the well-formed forms are, as the language definition gives them.
GoodKind == <<"def", "def", "extern", "expr", "expr", "expr">>
GoodAst ==
    <<FunctionAST(PrototypeAST(<<102>>, << <<120>> >>), VariableExprAST(<<120>>)),
      FunctionAST(PrototypeAST(<<103>>, << <<120>>, <<121>> >>),
                  BinaryExprAST(Star, VariableExprAST(<<120>>), VariableExprAST(<<121>>))),
      PrototypeAST(<<102>>, << <<120>> >>),
      FunctionAST(PrototypeAST(Str_anon, <<>>),
                  BinaryExprAST(Plus, NumberExprAST([m |-> 1, e |-> 0]),
                                NumberExprAST([m |-> 2, e |-> 0]))),
      FunctionAST(PrototypeAST(Str_anon, <<>>),
                  CallExprAST(<<102>>, <<NumberExprAST([m |-> 1, e |-> 0])>>)),
      FunctionAST(PrototypeAST(Str_anon, <<>>), VariableExprAST(<<120>>))>>
GoodFirstTok == <<tok_def, tok_def, tok_extern, tok_number, tok_identifier, tok_identifier>>

\* "(1+2"
Unterminated == BadForms[1]

IsPrefix(p, str) == Len(p) <= Len(str) /\ SubSeq(str, 1, Len(p)) = p

\* The first form failed with "expected ')'" and built no node.
UnterminatedFailed ==
    /\ forms # <<>>
    /\ forms[1].kind = "expr"
    /\ forms[1].ast = Null
    /\ forms[1].perrs = <<"expected ')'">>

\* Form i was parsed as written, as the second form handled.
ParsedNext(i) ==
    /\ Len(forms) >= 2
    /\ forms[2].kind = GoodKind[i]
    /\ forms[2].ast = GoodAst[i]

\* C3 as stated: after "(1+2" has failed with "expected ')'", the well-formed
\* form that follows is parsed, whatever its kind and whatever separates
\* the two.
C3_Original ==
    \A i \in 1..Len(GoodForms) : \A sep \in Separators :
        (input = Unterminated \o sep \o GoodForms[i] /\ pc = "done") =>
            UnterminatedFailed /\ ParsedNext(i)

\* C3 as amended: after "(1+2" has failed with "expected ')'" and no node,
\* the driver discards the token found where ')' was expected.  When that
\* token is a ';' between the forms, the well-formed form after it is
\* parsed, whatever its kind; when the form follows directly, the discarded
\* token is the form's first token.
C3_RecoversAfterDiscardedToken ==
    \A i \in 1..Len(GoodForms) :
        /\ ( /\ IsPrefix(Unterminated \o <<Semi>> \o GoodForms[i], input)
             /\ \/ Len(input) = Len(Unterminated) + 1 + Len(GoodForms[i])
                \/ input[Len(Unterminated) + 2 + Len(GoodForms[i])] = Semi
             /\ pc = "done" )
           => UnterminatedFailed /\ forms[1].endTok = Semi /\ ParsedNext(i)
        /\ ( /\ IsPrefix(Unterminated \o <<Space>> \o GoodForms[i], input)
             /\ forms # <<>> )
           => /\ UnterminatedFailed
              /\ forms[1].endTok = GoodFirstTok[i]
              /\ forms[1].resume = forms[1].end + 1

C3_Witness ==
    /\ input = Unterminated \o <<Semi>> \o GoodForms[1]
    /\ pc = "done"
    /\ UnterminatedFailed
    /\ ParsedNext(1)

\* C4: a handler whose production failed discards exactly one token, the one
\* that was current when the production returned; a handler whose
\* production succeeded discards none; and the next form is dispatched on
\* the token the handler left, top-level ';' apart.
C4_FailureDiscardsOneToken ==
    \A k \in 1..Len(forms) :
        /\ forms[k].ast = Null =>
              /\ forms[k].resume = forms[k].end + 1
              /\ toks[forms[k].end].tok = forms[k].endTok
        /\ forms[k].ast # Null => forms[k].resume = forms[k].end
        /\ \A j \in forms[k].resume ..
                    (IF k < Len(forms) THEN forms[k + 1].start ELSE Len(toks)) - 1 :
              toks[j].tok = Semi
        /\ forms[k].resume <= (IF k < Len(forms) THEN forms[k + 1].start ELSE Len(toks))

C4_Witness ==
    /\ pc = "done"
    /\ \E j, k \in 1..Len(forms) :
          /\ j < k
          /\ forms[j].ast = Null /\ forms[j].kind = "def"
          /\ forms[j].endTok # tok_eof
          /\ forms[k].ast # Null

RECURSIVE WellFormedExpr(_)
WellFormedExpr(n) ==
    CASE n.tag = "Number" -> TRUE
      [] n.tag = "Variable" -> TRUE
      [] n.tag = "Binary" -> WellFormedExpr(n.LHS) /\ WellFormedExpr(n.RHS)
      [] n.tag = "Call" -> \A i \in 1..Len(n.Args) : WellFormedExpr(n.Args[i])
      [] OTHER -> FALSE

WellFormedForm(f) ==
    IF f.kind = "extern" THEN f.ast.tag = "Prototype"
    ELSE /\ f.ast.tag = "Function"
         /\ f.ast.Proto.tag = "Prototype"
         /\ WellFormedExpr(f.ast.Body)

\* C5: a form in which some production reported a failure yields no node at
\* all, the failure is reported once, and a node that is built has no
\* missing child anywhere below it.
C5_NoPartialNode ==
    \A k \in 1..Len(forms) :
        /\ Len(forms[k].perrs) <= 1
        /\ forms[k].perrs # <<>> <=> forms[k].ast = Null
        /\ forms[k].ast # Null => WellFormedForm(forms[k])

C5_Witness ==
    /\ pc = "done"
    /\ \E k \in 1..Len(forms) :
          /\ forms[k].ast = Null
          /\ forms[k].kind = "expr"
          /\ forms[k].perrs = <<"unknown token when expecting an expression">>
          /\ forms[k].end >= forms[k].start + 3

----------------------------------------------------------------------------
(* Properties of the driver loop.                                          *)

\* The lexer before its first call, on the text given.
Fresh(text) ==
    [input |-> text, LastChar |-> Space, pos |-> 0, IdentifierStr |-> <<>>,
     NumVal |-> MkDouble(0, 0), CurTok |-> 0, errs |-> <<>>, toks |-> <<>>,
     exprs |-> <<>>, reads |-> 0]

\* The tokens gettok delivers from s on, up to and with the first tok_eof.
RECURSIVE TokenStream(_)
TokenStream(s) ==
    LET Rest(r) ==
            <<[tok |-> r.tok, IdentifierStr |-> r.s.IdentifierStr, NumVal |-> r.s.NumVal]>>
            \o (IF r.tok = tok_eof THEN <<>> ELSE TokenStream(r.s))
    IN Rest(gettok(s))

\* The number of tokens of the input, the end-of-input token included.
InputTokens == Len(TokenStream(Fresh(input)))

\* How many tokens of the input have been fetched after n calls of gettok.
Progress(n) == IF n < InputTokens THEN n ELSE InputTokens

\* C6: every iteration of the driver loop either stops the loop, at
\* end-of-input, or fetches at least one more token of the input, also when
\* the form fails to parse; the input has finitely many tokens, so the loop
\* terminates.
C6_IterationConsumesToken ==
    [][pc = "loop" => \/ pc' = "done" /\ CurTok = tok_eof
                      \/ pc' = "loop" /\ CurTok # tok_eof
                         /\ Progress(Len(toks')) > Progress(Len(toks))]_vars

C6_Witness ==
    /\ pc = "done"
    /\ Len(forms) >= 3
    /\ \A k \in 1..Len(forms) : forms[k].ast = Null

\* C7: the loop has stopped only with end-of-input as the current token and
\* all of the input read, and by then every token before end-of-input was
\* consumed by a production, discarded by recovery, or was a top-level ';';
\* and the loop does stop.
C7_StopsOnlyAtEndOfInput ==
    /\ [](pc = "done" =>
            /\ CurTok = tok_eof
            /\ LastChar = EOF
            /\ pos = Len(input)
            /\ Len(toks) >= InputTokens
            /\ \A j \in 1..(InputTokens - 1) :
                  \/ toks[j].tok = Semi
                  \/ \E k \in 1..Len(forms) : forms[k].start <= j /\ j < forms[k].resume)
    /\ <>(pc = "done")

C7_Witness ==
    /\ pc = "done"
    /\ Len(forms) >= 2
    /\ forms[1].ast = Null
    /\ forms[1].endTok # tok_eof
    /\ forms[Len(forms)].ast # Null

\* main() runs MainLoop to its return: the program takes a step whenever one
\* is possible.  A step is possible in every state but the final one (Main
\* at "main"; at "loop" one of the five cases of the switch), so ENABLED
\* <<Next>>_vars is ~Terminated, and weak fairness of Next,
\* []<>~ENABLED <<Next>>_vars \/ []<><<Next>>_vars, is the formula below.
Terminated == pc = "done"
FairSpec == Spec /\ ([]<>Terminated \/ []<><<Next>>_vars)

----------------------------------------------------------------------------
(* Properties of the lexer.                                                *)

\* The text without its comments: a comment runs from a '#' met outside a
\* comment up to, not including, the next line terminator or the end.
RECURSIVE Strip(_, _, _)
Strip(text, i, inComment) ==
    IF i > Len(text) THEN <<>>
    ELSE IF inComment
    THEN IF text[i] \in {NL, CR} THEN <<text[i]>> \o Strip(text, i + 1, FALSE)
         ELSE Strip(text, i + 1, TRUE)
    ELSE IF text[i] = Hash THEN Strip(text, i + 1, TRUE)
    ELSE <<text[i]>> \o Strip(text, i + 1, FALSE)

StripComments(text) == Strip(text, 1, FALSE)

AllSpace(text) == \A i \in 1..Len(text) : isspace(text[i])

\* The text ends inside a comment.
CommentOpen(text) ==
    \E h \in 1..Len(text) :
        text[h] = Hash /\ \A j \in (h + 1)..Len(text) : text[j] \notin {NL, CR}

OnlyBlank(text) == AllSpace(StripComments(text))

\* C8: on an input of whitespace and comments only, a last comment without
\* line terminator included, the first token delivered is end-of-input, it is
\* the only one fetched, no form is handled (no AST) and nothing is reported.
C8_BlankInputYieldsEof ==
    (OnlyBlank(input) /\ pc # "main") =>
        /\ Len(toks) = 1
        /\ toks[1].tok = tok_eof
        /\ CurTok = tok_eof
        /\ forms = <<>>
        /\ errs = <<>>
        /\ TheModule.funcs = <<>>

C8_Witness ==
    /\ pc = "done"
    /\ OnlyBlank(input)
    /\ Len(input) >= 3
    /\ CommentOpen(input)
    /\ input[Len(input)] # Hash
    /\ \E i \in 1..Len(input) : isspace(input[i])

\* The token and payload of a history entry.
Delivered(e) == [tok |-> e.tok, IdentifierStr |-> e.IdentifierStr, NumVal |-> e.NumVal]

CommentFreeStream == TokenStream(Fresh(StripComments(input)))

\* C9: the tokens of the input, with their payloads, are the tokens of the
\* input without its comments (the input never changes, so this is compared
\* once, when the loop has stopped), and every token the parser fetched is
\* the token at its place in that sequence (end-of-input repeats).
C9_CommentsTransparent ==
    LET Same(ref) ==
            /\ \A k \in 1..Len(toks) :
                  Delivered(toks[k]) = ref[IF k < Len(ref) THEN k ELSE Len(ref)]
            /\ pc = "done" => TokenStream(Fresh(input)) = ref
    IN Same(CommentFreeStream)

C9_Witness ==
    /\ pc = "done"
    /\ \E h \in 1..Len(input) :
          /\ input[h] = Hash
          /\ h + 1 <= Len(input) /\ isalnum(input[h + 1])
          /\ \E k \in 1..Len(toks) : toks[k].tok # tok_eof /\ toks[k].first > h + 1

\* The index of the last character of the token of a history entry: the
\* character read last is held, unless it was the end of the input.
TokLast(e) == IF e.LastChar = EOF THEN e.pos ELSE e.pos - 1

\* The held character is the last one read, at index pos of the input.
Held(e) ==
    IF e.LastChar = EOF THEN e.pos = Len(input)
    ELSE e.pos >= 1 /\ e.LastChar = input[e.pos]

\* The characters first..last of the input are the token, and the character
\* after them does not continue it.
TokenIs(e, txt) ==
    CASE e.tok = tok_eof -> e.LastChar = EOF
      [] e.tok \in {tok_identifier, tok_def, tok_extern} ->
            /\ txt # <<>>
            /\ isalpha(txt[1])
            /\ \A i \in 1..Len(txt) : isalnum(txt[i])
            /\ txt = e.IdentifierStr
            /\ e.tok = tok_def <=> txt = Str_def
            /\ e.tok = tok_extern <=> txt = Str_extern
            /\ ~isalnum(e.LastChar)
      [] e.tok = tok_number ->
            /\ txt # <<>>
            /\ \A i \in 1..Len(txt) : isdigit(txt[i]) \/ txt[i] = Dot
            /\ e.NumVal = strtod(txt)
            /\ ~(isdigit(e.LastChar) \/ e.LastChar = Dot)
      [] OTHER -> txt = <<e.tok>>

\* Between the end of the token before (index prev) and the token of e there
\* are whitespace and whole comments only.
GapIs(e, prev) ==
    IF e.tok = tok_eof
    THEN OnlyBlank(SubSeq(input, prev + 1, Len(input)))
    ELSE /\ e.first > prev
         /\ OnlyBlank(SubSeq(input, prev + 1, e.first - 1))
         /\ ~CommentOpen(SubSeq(input, prev + 1, e.first - 1))

\* C10: when a token is returned the characters read are those of the tokens,
\* whitespace and comments so far and at most one more, which is held in
\* LastChar; the next call starts at the held character, so the tokens tile
\* the input in order with nothing skipped and nothing read twice.
C10_OneHeldCharacter ==
    /\ pc # "main" =>
          /\ toks # <<>>
          /\ toks[Len(toks)].pos = pos
          /\ toks[Len(toks)].LastChar = LastChar
    /\ \A k \in 1..Len(toks) :
          /\ Held(toks[k])
          /\ TokenIs(toks[k], SubSeq(input, toks[k].first, TokLast(toks[k])))
          /\ GapIs(toks[k], IF k = 1 THEN 0 ELSE TokLast(toks[k - 1]))
          /\ (k > 1 /\ toks[k - 1].tok = tok_eof) => toks[k].tok = tok_eof

C10_Witness ==
    /\ pc = "done"
    /\ Len(toks) >= 4
    /\ \E k \in 1..(Len(toks) - 1) :
          /\ toks[k].LastChar # EOF
          /\ toks[k + 1].first = toks[k].pos
    /\ \E k \in 1..(Len(toks) - 1) :
          /\ toks[k + 1].tok # tok_eof
          /\ toks[k + 1].first > toks[k].pos

----------------------------------------------------------------------------
(* Properties of the productions.                                          *)

\* The node each argument text stands for.
ArgNode(i) ==
    CASE i = 1 -> NumberExprAST([m |-> 1, e |-> 0])
      [] i = 2 -> VariableExprAST(<<120>>)
      [] i = 3 -> BinaryExprAST(Plus, NumberExprAST([m |-> 2, e |-> 0]),
                                NumberExprAST([m |-> 3, e |-> 0]))
      [] i = 4 -> CallExprAST(<<103>>, <<NumberExprAST([m |-> 4, e |-> 0]),
                                         NumberExprAST([m |-> 5, e |-> 0])>>)

\* C11: a call f(a1, ..., an) parses to a Call of f whose argument list is
\* the nodes of a1 ... an in that order, one per top-level comma-separated
\* argument, each a whole expression (2+3 is one BinaryOp argument); f() is
\* a Call with no argument.
C11_ArgumentsInSourceOrder ==
    (forms # <<>> /\ Len(input) >= 3 /\ input[1] = 102 /\ input[2] = LParen) =>
        \A style \in 1..2 : \A as \in SeqsUpTo(1..Len(ArgTexts), MaxArgs) :
            input = CallText(style, as) =>
                /\ forms[1].ast # Null
                /\ forms[1].ast.Body =
                       CallExprAST(<<102>>, [i \in 1..Len(as) |-> ArgNode(as[i])])
                /\ forms[1].endTok = tok_eof

C11_Witness ==
    /\ pc = "done"
    /\ input = CallText(2, <<4, 3>>)
    /\ forms[1].ast.Body.Args[2] = ArgNode(3)

\* The expression at the head of each tail.
TailNode(tail) ==
    CASE tail = 2 -> VariableExprAST(<<120>>)
      [] tail = 3 -> BinaryExprAST(Plus, VariableExprAST(<<120>>), VariableExprAST(<<121>>))
      [] tail = 4 -> NumberExprAST([m |-> 1, e |-> 0])
      [] tail = 5 -> VariableExprAST(<<120>>)

ParamNames(ps) == [i \in 1..Len(ps) |-> ParamTexts[ps[i]]]

StartsWith(text, prefix) ==
    Len(text) >= Len(prefix) /\ SubSeq(text, 1, Len(prefix)) = prefix

\* C12: def f(p1 ... pn) e parses to a FunctionDef of the prototype f with
\* the parameter names p1 ... pn in that order, duplicates kept, and the
\* body e, the one expression after ')'; with a comma between two
\* parameters the prototype fails at the comma and no node is built.
C12_DefinitionCarriesPrototypeAndBody ==
    (forms # <<>> /\ StartsWith(input, Str_def \o <<Space, 102, LParen>>)) =>
        \A sep \in 1..2 : \A ps \in ParamLists : \A tail \in 2..Len(Tails) :
            input = ProtoText(1, 1, sep, ps, tail) =>
                IF sep = 2 /\ Len(ps) >= 2
                THEN /\ forms[1].ast = Null
                     /\ forms[1].perrs = <<"Expected ')' in prototype">>
                     /\ forms[1].endTok = Comma
                ELSE /\ forms[1].kind = "def"
                     /\ forms[1].ast =
                            FunctionAST(PrototypeAST(<<102>>, ParamNames(ps)), TailNode(tail))

C12_Witness ==
    /\ pc = "done"
    /\ input = ProtoText(1, 1, 1, <<2, 1>>, 3)
    /\ forms[1].ast.Proto.Args = <<<<121>>, <<120>>>>
    /\ forms[1].ast.Body.tag = "Binary"

\* The form handled after form k, if any, starts at the token that was
\* current when the production of form k returned, or after the top-level
\* ';' tokens from there on.
DispatchedNext(k) ==
    k < Len(forms) =>
        /\ forms[k + 1].start >= forms[k].end
        /\ toks[forms[k + 1].start].tok # Semi
        /\ \A j \in forms[k].end..(forms[k + 1].start - 1) : toks[j].tok = Semi

\* C13: a parsed extern is a Prototype and nothing else; the last token its
\* production consumed is the ')' and the token after it stays the current
\* token, which the driver examines next: the handler fetches nothing more,
\* and the text after ')' is handled as a top-level form of its own (extern
\* f(x) x+y is the prototype f(x) and then the expression x+y).
C13_ExternStopsAtCloseParen ==
    /\ \A k \in 1..Len(forms) :
          (forms[k].kind = "extern" /\ forms[k].ast # Null) =>
              /\ forms[k].ast.tag = "Prototype"
              /\ toks[forms[k].end - 1].tok = RParen
              /\ toks[forms[k].end].tok = forms[k].endTok
              /\ forms[k].resume = forms[k].end
              /\ DispatchedNext(k)
              /\ (pc = "done" /\ forms[k].endTok \notin {tok_eof, Semi}) => k < Len(forms)
    /\ (pc = "done" /\ StartsWith(input, Str_extern \o <<Space, 102, LParen>>)) =>
          \A ps \in ParamLists : \A tail \in 1..Len(Tails) :
              input = ProtoText(2, 1, 1, ps, tail) =>
                  /\ forms[1].kind = "extern"
                  /\ forms[1].ast = PrototypeAST(<<102>>, ParamNames(ps))
                  /\ Len(forms) = (CASE tail = 1 -> 1 [] tail = 5 -> 3 [] OTHER -> 2)
                  /\ tail > 1 =>
                        /\ forms[2].kind = "expr"
                        /\ forms[2].ast.Body = TailNode(tail)

C13_Witness ==
    /\ pc = "done"
    /\ input = ProtoText(2, 1, 1, <<1>>, 3)
    /\ Len(forms) = 2
    /\ forms[2].ast.Body.tag = "Binary"

----------------------------------------------------------------------------
(* Properties of the tokens.                                               *)

\* The length of the run of alphanumeric characters of text from index i on.
RECURSIVE AlnumRun(_, _)
AlnumRun(text, i) ==
    IF i <= Len(text) /\ isalnum(text[i]) THEN 1 + AlnumRun(text, i + 1) ELSE 0

\* The token of the name txt.
NameToken(txt) ==
    IF txt = Str_def THEN tok_def
    ELSE IF txt = Str_extern THEN tok_extern
    ELSE tok_identifier

\* The entry is the token of the name txt, which ends where the entry ends.
NameIs(e, txt) ==
    /\ e.IdentifierStr = txt
    /\ e.tok = NameToken(txt)
    /\ TokLast(e) = e.first + Len(txt) - 1

\* C14: a token that starts at a letter is the name made of the whole run of
\* alphanumeric characters from there on; it is Def exactly when the run is
\* "def", Extern exactly when it is "extern", Identifier with the run as its
\* name otherwise; and no other token is Def, Extern or Identifier.
C14_KeywordsAreWholeNames ==
    \A k \in 1..Len(toks) :
        IF toks[k].tok # tok_eof /\ isalpha(input[toks[k].first])
        THEN NameIs(toks[k], SubSeq(input, toks[k].first,
                                    toks[k].first + AlnumRun(input, toks[k].first) - 1))
        ELSE toks[k].tok \notin {tok_def, tok_extern, tok_identifier}

C14_Witness ==
    /\ pc = "done"
    /\ input = <<49>> \o Str_extern \o <<115>>
    /\ toks[1].tok = tok_number
    /\ toks[2].tok = tok_identifier
    /\ toks[2].IdentifierStr = Str_extern \o <<115>>

----------------------------------------------------------------------------
(* Properties of the expression production.                                *)

\* The expression entry x of a form: the expression took at least one
\* token, the token current at its return is the last one fetched and is
\* no binary operator.
EndsBeforeCurrentToken(x) ==
    /\ x.from < x.end
    /\ toks[x.end].tok = x.tok
    /\ x.tok \notin BinOps

\* C15: when ParseExpression succeeds, nested or at the top of a form, the
\* current token is the token after the tokens the expression took, it is
\* the last token fetched, and it is none of < > + - * /; after the
\* expression of a definition or of a top-level expression the handler
\* fetches nothing, so the driver dispatches on that same token.
C15_ExpressionEndsAtNonOperator ==
    \A k \in 1..Len(forms) :
        /\ \A i \in 1..Len(forms[k].exprs) : EndsBeforeCurrentToken(forms[k].exprs[i])
        /\ (forms[k].ast # Null /\ forms[k].kind \in {"def", "expr"}) =>
              /\ forms[k].exprs # <<>>
              /\ forms[k].exprs[Len(forms[k].exprs)].end = forms[k].end
              /\ forms[k].exprs[Len(forms[k].exprs)].tok = forms[k].endTok
              /\ forms[k].resume = forms[k].end
              /\ DispatchedNext(k)

C15_Witness ==
    /\ pc = "done"
    /\ \E k \in 1..(Len(forms) - 1) :
          /\ forms[k].ast # Null
          /\ Len(forms[k].exprs) >= 2
          /\ forms[k].exprs[1].tok = RParen
          /\ forms[k].endTok = tok_number
          /\ forms[k + 1].ast # Null

----------------------------------------------------------------------------
(* Properties of the diagnostics.                                          *)

UnknownToken == "unknown token when expecting an expression"

\* C16: a token that is no Number, no Identifier and no '(' , met where a
\* primary is expected (at the start of an expression or after a binary
\* operator), gives the one diagnostic "unknown token when expecting an
\* expression" and no node, and is still the current token when the
\* production returns.
C16_UnknownTokenInPrimaryPosition ==
    /\ \A k \in 1..Len(forms) :
          UnknownToken \in {forms[k].perrs[i] : i \in 1..Len(forms[k].perrs)} =>
              /\ forms[k].ast = Null
              /\ forms[k].perrs = <<UnknownToken>>
              /\ forms[k].endTok \notin {tok_number, tok_identifier, LParen}
              /\ toks[forms[k].end].tok = forms[k].endTok
    /\ forms # <<>> =>
          \A p \in PrimaryCases :
              input = PrimaryCaseText(p) =>
                  /\ forms[1].ast = Null
                  /\ forms[1].perrs = <<UnknownToken>>
                  /\ forms[1].endTok = NonPrimaryTokens[p[2]][2]
                  /\ forms[1].end = PrimaryContexts[p[1]][2] + 1
                  /\ toks[forms[1].end].tok = forms[1].endTok

C16_Witness ==
    /\ pc = "done"
    /\ input = PrimaryCaseText(<<5, 1>>)
    /\ forms[1].endTok = tok_def
    /\ forms[1].perrs = <<UnknownToken>>

PrototypeDiagnostics ==
    {"Expected function name in prototype", "Expected '(' in prototype",
     "Expected ')' in prototype"}

\* The index of the first token from j on that is no Identifier.
RECURSIVE ParamsEnd(_)
ParamsEnd(j) == IF toks[j].tok = tok_identifier THEN ParamsEnd(j + 1) ELSE j

\* The form f failed in its prototype at token j with the diagnostic d.
PrototypeFailedAt(f, j, d) ==
    /\ f.ast = Null
    /\ f.perrs = <<d>>
    /\ f.end = j
    /\ f.endTok = toks[j].tok

\* The prototype of f, whose keyword is token n, as the tokens after the
\* keyword decide it.
PrototypeOutcome(f, n) ==
    IF toks[n + 1].tok # tok_identifier
    THEN PrototypeFailedAt(f, n + 1, "Expected function name in prototype")
    ELSE IF toks[n + 2].tok # LParen
    THEN PrototypeFailedAt(f, n + 2, "Expected '(' in prototype")
    ELSE IF toks[ParamsEnd(n + 3)].tok # RParen
    THEN PrototypeFailedAt(f, ParamsEnd(n + 3), "Expected ')' in prototype")
    ELSE /\ \A i \in 1..Len(f.perrs) : f.perrs[i] \notin PrototypeDiagnostics
         /\ f.kind = "extern" => f.ast # Null
         /\ f.end > ParamsEnd(n + 3)

\* C17: a prototype fails, with no node and one fixed diagnostic, exactly
\* when the token after def or extern is no Identifier ("Expected function
\* name in prototype"), or the token after the name is not '(' ("Expected
\* '(' in prototype"), or the first token after the parameter Identifiers
\* is not ')' ("Expected ')' in prototype"); the token that was found
\* instead is the current token when the production returns.
C17_PrototypeFailsInThreeCases ==
    \A k \in 1..Len(forms) :
        forms[k].kind \in {"def", "extern"} => PrototypeOutcome(forms[k], forms[k].start)

C17_Witness ==
    /\ pc = "done"
    /\ input = ProtoText(2, 3, 1, <<1>>, 2)
    /\ forms[1].perrs = <<"Expected '(' in prototype">>
    /\ forms[1].endTok = tok_identifier

----------------------------------------------------------------------------
(* Properties of the number tokens.                                        *)

\* The length of the run of digits and '.' of text from index i on.
RECURSIVE NumRun(_, _)
NumRun(text, i) ==
    IF i <= Len(text) /\ (isdigit(text[i]) \/ text[i] = Dot)
    THEN 1 + NumRun(text, i + 1)
    ELSE 0

\* Entry k is the one Number token of the run of n characters it starts,
\* and the character after the run, unless it is blank or starts a comment,
\* starts the next token.
NumberIs(k, n) ==
    /\ toks[k].tok = tok_number
    /\ TokLast(toks[k]) = toks[k].first + n - 1
    /\ (/\ k < Len(toks)
        /\ toks[k].first + n <= Len(input)
        /\ ~isspace(input[toks[k].first + n])
        /\ input[toks[k].first + n] # Hash) =>
            toks[k + 1].first = toks[k].first + n

\* C18: a token that starts at a digit or at '.' is one Number token made of
\* the whole run of digits and '.' from there on, however many '.' the run
\* has and wherever they are (1.2.3, .. and . are one token each); the
\* character after the run starts the next token; no other token is a
\* Number.
C18_NumberIsWholeRun ==
    \A k \in 1..Len(toks) :
        IF /\ toks[k].tok # tok_eof
           /\ (isdigit(input[toks[k].first]) \/ input[toks[k].first] = Dot)
        THEN NumberIs(k, NumRun(input, toks[k].first))
        ELSE toks[k].tok # tok_number

C18_Witness ==
    /\ pc = "done"
    /\ input = <<49, 46, 50, 46, 51, 97>>
    /\ toks[1].tok = tok_number
    /\ toks[2].tok = tok_identifier
    /\ toks[3].tok = tok_eof

----------------------------------------------------------------------------
(* Properties of the lowering.                                             *)

\* The module and the scope in which the body of the first form is lowered:
\* the module holds the form's own function, the scope its parameters.
FirstModule(fn) ==
    SetBody(PrototypeAST_codegen(fn.Proto, [funcs |-> <<>>, LastUnique |-> 0]), fn.Proto.Name)
FirstScope(fn) == {fn.Proto.Args[i] : i \in 1..Len(fn.Proto.Args)}

Lowers(n, M, NV) == ExprAST_codegen(n, M, NV, <<>>).ok

\* Every BinaryOp node in n whose two operands lower, lowers.
RECURSIVE BinaryOpsLower(_, _, _)
BinaryOpsLower(n, M, NV) ==
    CASE n.tag = "Binary" ->
            /\ BinaryOpsLower(n.LHS, M, NV)
            /\ BinaryOpsLower(n.RHS, M, NV)
            /\ (Lowers(n.LHS, M, NV) /\ Lowers(n.RHS, M, NV)) => Lowers(n, M, NV)
      [] n.tag = "Call" -> \A i \in 1..Len(n.Args) : BinaryOpsLower(n.Args[i], M, NV)
      [] OTHER -> TRUE

\* C19: every BinaryOp node the parser builds, with any of the operators
\* < > + - * /, lowers when its two operands lower; so the first form
\* handled, when it is a definition or an expression whose body is built of
\* operands that lower, is lowered to a function.
C19_EveryParsedOperatorLowers ==
    (forms # <<>> /\ forms[1].ast # Null /\ forms[1].kind \in {"def", "expr"}) =>
        /\ BinaryOpsLower(forms[1].ast.Body, FirstModule(forms[1].ast),
                          FirstScope(forms[1].ast))
        /\ Lowers(forms[1].ast.Body, FirstModule(forms[1].ast), FirstScope(forms[1].ast))
              <=> forms[1].lowered

----------------------------------------------------------------------------
(* Properties of the end of the input.                                     *)

\* C20: once gettok has returned tok_eof, every later call returns tok_eof
\* again and calls getchar() not once, leaving the cursor and the held EOF
\* as they were; so when a form fails with end-of-input as the current
\* token, the token recovery fetches is end-of-input again, the current
\* token stays end-of-input and no further form is handled.
C20_EndOfInputIsSticky ==
    /\ \A k \in 2..Len(toks) :
          toks[k - 1].tok = tok_eof =>
              /\ toks[k].tok = tok_eof
              /\ toks[k].reads = 0
              /\ toks[k].pos = toks[k - 1].pos
              /\ toks[k].LastChar = EOF
    /\ \A k \in 1..Len(forms) :
          (forms[k].ast = Null /\ forms[k].endTok = tok_eof) =>
              /\ forms[k].resume = forms[k].end + 1
              /\ toks[forms[k].resume].tok = tok_eof
              /\ k = Len(forms)
              /\ CurTok = tok_eof

C20_Witness ==
    /\ pc = "done"
    /\ \E k \in 1..Len(forms) :
          /\ forms[k].ast = Null
          /\ forms[k].endTok = tok_eof
          /\ Len(toks) = forms[k].end + 1
          /\ toks[Len(toks)].reads = 0
          /\ toks[forms[k].end].reads > 0

----------------------------------------------------------------------------
(* Properties of the token payloads.                                       *)

IdPayload(name) == [k |-> "id", v |-> name]
NumPayload(val) == [k |-> "num", v |-> val]

\* The names and numbers of a node, in source order.
RECURSIVE Payloads(_), ArgPayloads(_, _)
Payloads(n) ==
    CASE n.tag = "Number" -> <<NumPayload(n.Val)>>
      [] n.tag = "Variable" -> <<IdPayload(n.Name)>>
      [] n.tag = "Binary" -> Payloads(n.LHS) \o Payloads(n.RHS)
      [] n.tag = "Call" -> <<IdPayload(n.Callee)>> \o ArgPayloads(n.Args, 1)
      [] n.tag = "Prototype" ->
            <<IdPayload(n.Name)>> \o [i \in 1..Len(n.Args) |-> IdPayload(n.Args[i])]
      [] n.tag = "Function" -> Payloads(n.Proto) \o Payloads(n.Body)

ArgPayloads(Args, i) ==
    IF i > Len(Args) THEN <<>> ELSE Payloads(Args[i]) \o ArgPayloads(Args, i + 1)

\* The names and numbers a parsed form carries: the wrapper of a top-level
\* expression has a name no token gave it.
FormPayloads(f) == IF f.kind = "expr" THEN Payloads(f.ast.Body) ELSE Payloads(f.ast)

\* The texts of the Identifier tokens and the values of the Number tokens
\* among the tokens a..b, read from the input.
RECURSIVE TokenPayloads(_, _)
TokenPayloads(a, b) ==
    IF a > b THEN <<>>
    ELSE (CASE toks[a].tok = tok_identifier ->
                  <<IdPayload(SubSeq(input, toks[a].first, TokLast(toks[a])))>>
            [] toks[a].tok = tok_number ->
                  <<NumPayload(strtod(SubSeq(input, toks[a].first, TokLast(toks[a]))))>>
            [] OTHER -> <<>>)
         \o TokenPayloads(a + 1, b)

\* C21: the names and numbers in the node of a parsed form (variable
\* references, callees, the prototype's name and parameters, number
\* literals) are, in source order, the texts of the Identifier tokens and
\* the values of the Number tokens the form consumed: each is the payload of
\* the token at its place, none that of an earlier or later token.
C21_PayloadsReadAtTheirToken ==
    \A k \in 1..Len(forms) :
        forms[k].ast # Null =>
            FormPayloads(forms[k]) = TokenPayloads(forms[k].start, forms[k].end - 1)

C21_Witness ==
    /\ pc = "done"
    /\ \E k \in 1..(Len(forms) - 1) :
          /\ forms[k].ast # Null
          /\ forms[k + 1].ast # Null
          /\ forms[k].end = forms[k + 1].start
          /\ toks[forms[k].end - 1].tok = tok_number
          /\ toks[forms[k].end].tok = tok_number
          /\ toks[forms[k].end - 1].NumVal # toks[forms[k].end].NumVal

----------------------------------------------------------------------------
(* Properties of the module.                                               *)

\* The functions a module declares.
Declared(M) == {[Name |-> M.funcs[i].Name, Args |-> M.funcs[i].Args] : i \in 1..Len(M.funcs)}

\* This step handled a definition that parsed and whose body failed to
\* lower: lowering reported an error other than the redefinition.
BodyFailedStep ==
    /\ Len(forms') = Len(forms) + 1
    /\ forms'[Len(forms')].kind = "def"
    /\ forms'[Len(forms')].ast # Null
    /\ ~forms'[Len(forms')].lowered
    /\ errs'[Len(errs')] # "Function cannot be redefined."

\* C22: a definition whose body fails to lower leaves the functions the
\* module declares as they were before the definition was handled, a
\* function of the same name declared by an earlier extern included.
C22_FailedDefinitionKeepsModule ==
    [][BodyFailedStep => Declared(TheModule') = Declared(TheModule)]_vars

\* The input holds the text somewhere.
Contains(text) ==
    \E i \in 1..(Len(input) - Len(text) + 1) :
        SubSeq(input, i, i + Len(text) - 1) = text

\* The node of a parsed form names the function: as a prototype's name or
\* as a callee.
Names(f, name) ==
    \E i \in 1..Len(FormPayloads(f)) : FormPayloads(f)[i] = IdPayload(name)

\* C23: in every state between top-level forms the module holds no function
\* named "__anon_expr", whatever happened to the top-level expressions
\* handled so far; no Identifier token has that text, and no definition,
\* extern or call that was parsed names it.
C23_NoAnonymousFunctionBetweenForms ==
    /\ \A i \in 1..Len(TheModule.funcs) : TheModule.funcs[i].Name # Str_anon
    /\ \A k \in 1..Len(toks) :
          toks[k].tok = tok_identifier =>
              /\ toks[k].IdentifierStr # Str_anon
              /\ SubSeq(input, toks[k].first, TokLast(toks[k])) # Str_anon
    /\ \A k \in 1..Len(forms) : forms[k].ast # Null => ~Names(forms[k], Str_anon)

\* The input holds the text __anon_expr, and top-level expressions have
\* failed to parse, failed to lower and lowered.
C23_Witness ==
    /\ pc = "done"
    /\ Contains(Str_anon)
    /\ \E k \in 1..Len(forms) : forms[k].kind = "expr" /\ forms[k].ast = Null
    /\ \E k \in 1..Len(forms) :
          forms[k].kind = "expr" /\ forms[k].ast # Null /\ ~forms[k].lowered
    /\ \E k \in 1..Len(forms) : forms[k].kind = "expr" /\ forms[k].lowered

====
